---- MODULE Spec2Model ----
(***************************************************************************)
(* Model of the Meraki configuration-change CLI:                           *)
(*   app/meraki_api/meraki.py   MerakiOps (client singleton, selection,    *)
(*                              change fetch)                              *)
(*   app/env_manager/vd.py      Validators.validate_meraki_api_key         *)
(*   app/main.py                UF.validate_timespan and the commands      *)
(*   app/functions/utils.py     report emitters                            *)
(*   app/env_manager/em.py      EM.set_meraki_api_key, EM.set_env_var      *)
(*                                                                         *)
(* Python values are encoded as follows.  An optional value is a sequence  *)
(* of length 0 (None) or 1 (the value).  A dict is a sequence of           *)
(* <<key, value>> pairs in insertion order.  A raised exception is a       *)
(* result record whose kind is "raise".                                    *)
(***************************************************************************)
EXTENDS Integers, Sequences, FiniteSets, TLC

VARIABLES
    instance,   \* MerakiOps._instance: 0 is None, else an index into heap
    heap,       \* the MerakiOps objects allocated so far
    cfgKey,     \* c.MERAKI_API_KEY: None when the attribute is absent
    held,       \* per caller: the reference it last obtained and the key it asked for
    recent,     \* the api_key argument of the latest MerakiOps(...) construction, None if omitted
    last,       \* the latest validate_meraki_api_key or emitter call: input, environment, result
    selOrgs,    \* get_org_id: the organizations get_orgs returned
    selPc,      \* get_org_id: "start", "prompt" (inside the while loop), "returned", "raised"
    selInput,   \* the selection the latest prompt received
    selResult,  \* what get_org_id returned: <<id, name>>
    prompts,    \* number of Prompt.ask calls made
    pc,         \* position of the running command
    exc,        \* the exception that left the command, "" when none did
    opts,       \* the command's parameters: filter_switch, timespan, t0, t1
    nets,       \* the network ids the command iterates over
    idx,        \* 1-based position of the for loop in nets
    fetched,    \* what get_org_config_changes did for each network visited so far
    all_changes,\* all_changes of get_config_changes_org_wide
    queries,    \* the keyword arguments of each getOrganizationConfigurationChanges call
    netcalls,   \* client constructions and provider requests made by the command
    files,      \* the data folder: path -> content
    reports,    \* what each report emitter call returned
    now,        \* the local clock, in seconds
    tpc,        \* per thread: its position inside MerakiOps(...) or get_instance()
    targ,       \* per thread: the api_key argument of the call it is making
    ctors,      \* number of meraki.DashboardAPI(...) constructor calls made
    entered,    \* set_meraki_api_key: the api_key argument
    environ,    \* os.environ: variable name -> value
    dotenv,     \* the .env file: variable name -> value
    setResult   \* what set_meraki_api_key returned

regVars == <<instance, heap, cfgKey, held, recent>>
valVars == <<last>>
selVars == <<selOrgs, selPc, selInput, selResult, prompts>>
cmdVars == <<pc, exc, opts, nets, idx, fetched, all_changes, queries, netcalls, files, reports, now>>
thrVars == <<tpc, targ, ctors>>
stoVars == <<entered, environ, dotenv, setResult>>
vars == <<regVars, valVars, selVars, cmdVars, thrVars, stoVars>>

None == <<>>
Some(x) == <<x>>

(***************************************************************************)
(* Credentials.  A credential is a string; the code only looks at its      *)
(* length, at whether every character is alphanumeric, and at its value    *)
(* (tag tells two strings of the same shape apart).                        *)
(***************************************************************************)
MinKeyLen == 20
MaxKeyLen == 128

Key(t, l, a) == [tag |-> t, n |-> l, alnum |-> a]

KeyLens == {0, MinKeyLen - 1, MinKeyLen, MaxKeyLen, MaxKeyLen + 1}

\* str.isalnum() is False for the empty string.
Keys ==
    ({Key(1, l, a) : l \in KeyLens, a \in BOOLEAN} \ {Key(1, 0, TRUE)})
        \cup {Key(2, MinKeyLen, TRUE)}

\* Python truthiness of a str.
Truthy(k) == k.n > 0

SyntacticOkNoLower(k) == k.n <= MaxKeyLen /\ k.alnum

\* vd.py:42  20 <= len(api_key) <= 128 and api_key.isalnum()
SyntacticOk(k) == MinKeyLen <= k.n /\ k.n <= MaxKeyLen /\ k.alnum

(***************************************************************************)
(* MerakiOps: __new__, __init__, initialize_dashboard, get_instance.       *)
(***************************************************************************)
Callers == {"c1", "c2"}

\* An object __new__ has just made: __init__ has set no attribute yet.
BareObject == [attrs |-> FALSE, api_key |-> None, dashboard |-> FALSE, initialized |-> FALSE]

\* A __new__ that forgets the singleton check.
MerakiNewAlways(inst, hp) ==
    IF Len(hp) < 2
    THEN [inst |-> Len(hp) + 1, heap |-> Append(hp, BareObject)]
    ELSE [inst |-> inst, heap |-> hp]

\* MerakiOps.__new__: one object per class, whatever the arguments.
MerakiNew(inst, hp) ==
    IF inst = 0
    THEN [inst |-> Len(hp) + 1, heap |-> Append(hp, BareObject)]
    ELSE [inst |-> inst, heap |-> hp]

\* api_key or c.MERAKI_API_KEY: None stands for the AttributeError of a
\* config without that attribute.
EffectiveKey(arg, cfg) ==
    IF arg # None /\ Truthy(arg[1]) THEN arg ELSE cfg

\* __init__ followed by initialize_dashboard, which catches every Exception
\* of the DashboardAPI constructor (ctorOk is the constructor's outcome).
MerakiInit(key, ctorOk) ==
    [attrs |-> TRUE, api_key |-> Some(key), dashboard |-> ctorOk, initialized |-> ctorOk]

\* MerakiOps(api_key=arg): the registry after the call and what the caller gets.
MerakiOps(inst, hp, arg, cfg, ctorOk) ==
    LET n == MerakiNew(inst, hp)
        k == EffectiveKey(arg, cfg)
    IN  IF k = None
        THEN [kind |-> "raise", exc |-> "AttributeError", inst |-> n.inst, heap |-> n.heap,
              constructs |-> 0]
        ELSE [kind |-> "return", exc |-> "", inst |-> n.inst,
              heap |-> [n.heap EXCEPT ![n.inst] = MerakiInit(k[1], ctorOk)],
              constructs |-> 1]

\* MerakiOps.get_instance(): constructs only when _instance is None.
GetInstance(inst, hp, cfg, ctorOk) ==
    IF inst = 0
    THEN MerakiOps(inst, hp, None, cfg, ctorOk)
    ELSE [kind |-> "return", exc |-> "", inst |-> inst, heap |-> hp, constructs |-> 0]

NoCall == [op |-> "none"]

ValIdle == last = NoCall

SelIdle ==
    /\ selOrgs = <<>>
    /\ selPc = "idle"
    /\ selInput = None
    /\ selResult = None
    /\ prompts = 0

NoOpts == [filter_switch |-> FALSE, timespan |-> None, t0 |-> None, t1 |-> None]

NoFiles == <<>>

CmdIdle ==
    /\ pc = "idle"
    /\ exc = ""
    /\ opts = NoOpts
    /\ nets = <<>>
    /\ idx = 0
    /\ fetched = <<>>
    /\ all_changes = <<>>
    /\ queries = <<>>
    /\ netcalls = 0
    /\ files = NoFiles
    /\ reports = <<>>
    /\ now = 0

\* The threads that call into MerakiOps concurrently.
Threads == {"t1", "t2"}

ThrIdle ==
    /\ tpc = [t \in Threads |-> "idle"]
    /\ targ = [t \in Threads |-> None]
    /\ ctors = 0

\* An empty os.environ / .env file (of the MERAKI_API_KEY_* entries).
NoEntries == <<>>

StoIdle ==
    /\ entered = None
    /\ environ = NoEntries
    /\ dotenv = NoEntries
    /\ setResult = None

RegIdle ==
    /\ instance = 0
    /\ heap = <<>>
    /\ cfgKey = None
    /\ held = [c \in Callers |-> None]
    /\ recent = None

RegInit ==
    /\ instance = 0
    /\ heap = <<>>
    /\ cfgKey \in {None, Some(Key(1, MaxKeyLen, TRUE))}
    /\ held = [c \in Callers |-> None]
    /\ recent = None

\* A caller evaluates MerakiOps(api_key=k) and keeps the reference.
CallMerakiOps(c, k, ctorOk) ==
    LET r == MerakiOps(instance, heap, Some(k), cfgKey, ctorOk)
    IN  /\ instance' = r.inst
        /\ heap' = r.heap
        /\ IF r.kind = "return"
           THEN /\ held' = [held EXCEPT ![c] = Some([ref |-> r.inst, key |-> Some(k)])]
                /\ recent' = Some(k)
           ELSE UNCHANGED <<held, recent>>
        /\ UNCHANGED <<cfgKey, thrVars, stoVars, valVars, selVars, cmdVars>>

\* A caller evaluates MerakiOps.get_instance() and keeps the reference.
CallGetInstance(c, ctorOk) ==
    LET r == GetInstance(instance, heap, cfgKey, ctorOk)
    IN  /\ instance' = r.inst
        /\ heap' = r.heap
        /\ IF r.kind = "return"
           THEN /\ held' = [held EXCEPT ![c] = Some([ref |-> r.inst, key |-> None])]
                /\ recent' = IF r.constructs = 1 THEN None ELSE recent
           ELSE UNCHANGED <<held, recent>>
        /\ UNCHANGED <<cfgKey, thrVars, stoVars, valVars, selVars, cmdVars>>

RegNext ==
    \/ \E c \in Callers, k \in Keys, ctorOk \in BOOLEAN : CallMerakiOps(c, k, ctorOk)
    \/ \E c \in Callers, ctorOk \in BOOLEAN : CallGetInstance(c, ctorOk)

InitRegistry == RegInit /\ ValIdle /\ SelIdle /\ CmdIdle /\ ThrIdle /\ StoIdle

SpecRegistry == InitRegistry /\ [][RegNext]_vars

(***************************************************************************)
(* Organizations and the provider's answer to getOrganizations.            *)
(***************************************************************************)
Org(i, nm) == [id |-> i, name |-> nm]

OrgPool == {Org("o1", "Acme"), Org("o2", "acme"), Org("o3", "3")}

MaxOrgs == 2

\* The lists the provider can return: no organization twice.
OrgLists ==
    UNION {{l \in [1..n -> OrgPool] : \A i, j \in 1..n : l[i].id = l[j].id => i = j}
              : n \in 0..MaxOrgs}

\* What dashboard.organizations.getOrganizations() does: returns a list or raises.
Listings ==
    {[kind |-> "ok", orgs |-> l] : l \in OrgLists}
        \cup {[kind |-> "APIError", orgs |-> <<>>], [kind |-> "Exception", orgs |-> <<>>]}

\* MerakiOps.get_orgs on object obj: with dashboard None the attribute access
\* raises before any request is sent.
GetOrgs(obj, listing) ==
    IF ~obj.dashboard
    THEN [kind |-> "raise", exc |-> "AttributeError", orgs |-> <<>>, calls |-> 0]
    ELSE IF listing.kind = "ok"
         THEN [kind |-> "return", exc |-> "", orgs |-> listing.orgs, calls |-> 1]
         ELSE [kind |-> "raise", exc |-> listing.kind, orgs |-> <<>>, calls |-> 1]

(***************************************************************************)
(* Validators.validate_meraki_api_key                                      *)
(***************************************************************************)
Verdict(v, m, oid, onm) ==
    [kind |-> "return", valid |-> v, message |-> m, org_id |-> oid, org_name |-> onm]

LastOrg(orgs) == orgs[Len(orgs)]

\* orgs[0]
FirstOrg(orgs) == orgs[1]

\* The whole of validate_meraki_api_key: the registry after it, its result and
\* the number of DashboardAPI constructions and provider requests it made.
ValidateKey(inst, hp, k, cfg, ctorOk, listing) ==
    IF ~SyntacticOk(k)
    THEN [inst |-> inst, heap |-> hp, constructs |-> 0, netcalls |-> 0,
          result |-> Verdict(FALSE, "syntactic", None, None)]
    ELSE
        LET m == MerakiOps(inst, hp, Some(k), cfg, ctorOk)
        IN  IF m.kind = "raise"
            THEN [inst |-> m.inst, heap |-> m.heap, constructs |-> m.constructs, netcalls |-> 0,
                  result |-> Verdict(FALSE, "generic", None, None)]
            ELSE
                LET g == GetInstance(m.inst, m.heap, cfg, ctorOk)
                    o == GetOrgs(g.heap[g.inst], listing)
                    res ==
                        IF o.kind = "return"
                        THEN IF o.orgs # <<>>
                             THEN Verdict(TRUE, "valid", Some(FirstOrg(o.orgs).id),
                                          Some(FirstOrg(o.orgs).name))
                             ELSE Verdict(FALSE, "no organizations", None, None)
                        ELSE IF o.exc = "APIError"
                             THEN Verdict(FALSE, "API Error", None, None)
                             ELSE Verdict(FALSE, "generic", None, None)
                IN  [inst |-> g.inst, heap |-> g.heap,
                     constructs |-> m.constructs + g.constructs, netcalls |-> o.calls,
                     result |-> res]

Validate(k, ctorOk, listing) ==
    LET v == ValidateKey(instance, heap, k, cfgKey, ctorOk, listing)
    IN  /\ instance' = v.inst
        /\ heap' = v.heap
        /\ recent' = IF v.constructs > 0 THEN Some(k) ELSE recent
        /\ last' = [op |-> "validate", key |-> k, ctorOk |-> ctorOk, listing |-> listing,
                    result |-> v.result, constructs |-> v.constructs, netcalls |-> v.netcalls]
        /\ UNCHANGED <<cfgKey, held, thrVars, stoVars, selVars, cmdVars>>

ValNext == \E k \in Keys, ctorOk \in BOOLEAN, listing \in Listings : Validate(k, ctorOk, listing)

InitValidate == RegInit /\ ValIdle /\ SelIdle /\ CmdIdle /\ ThrIdle /\ StoIdle

SpecValidate == InitValidate /\ [][ValNext]_vars

(***************************************************************************)
(* Claims about the client registry and the key validator.                 *)
(***************************************************************************)
HeldBy(c) == held[c][1]

AsksKey(c) == held[c] # None /\ HeldBy(c).key # None /\ Truthy(HeldBy(c).key[1])

\* C1 as stated: a client obtained for credential k stays bound to k, the same
\* credential gives the same identity and distinct credentials give distinct
\* identities.
C1_PerKeyIdentity ==
    \A c1, c2 \in Callers :
        (AsksKey(c1) /\ AsksKey(c2)) =>
            /\ heap[HeldBy(c1).ref].api_key = HeldBy(c1).key
            /\ (HeldBy(c1).key = HeldBy(c2).key) <=> (HeldBy(c1).ref = HeldBy(c2).ref)

\* C1 amended: every reference obtained, for whatever credential, is the one
\* process-wide instance, and that instance is bound to the credential of the
\* latest construction (a call with a non-empty credential k binds it to k).
C1_OneInstanceLatestKey ==
    /\ \A c \in Callers : held[c] # None => HeldBy(c).ref = instance
    /\ \A c1, c2 \in Callers :
           (held[c1] # None /\ held[c2] # None) => HeldBy(c1).ref = HeldBy(c2).ref
    /\ (instance # 0 /\ recent # None /\ recent[1].n > 0) => heap[instance].api_key = recent

\* Two callers hold references obtained with two different non-empty credentials.
C1_Witness ==
    /\ AsksKey("c1") /\ AsksKey("c2")
    /\ HeldBy("c1").key # HeldBy("c2").key
    /\ HeldBy("c1").ref = HeldBy("c2").ref
    /\ heap[instance].api_key = HeldBy("c2").key

\* C16: a failed client construction is surfaced to the caller as an error and
\* leaves the registry empty: no caller is handed, and the registry never
\* holds, an initialised instance without a dashboard client.
C16_FailedConstructionLeavesRegistryEmpty ==
    /\ (instance # 0 /\ heap[instance].attrs) => heap[instance].dashboard
    /\ \A c \in Callers :
           (held[c] # None /\ heap[HeldBy(c).ref].attrs) => heap[HeldBy(c).ref].dashboard

\* C4: a credential failing the syntactic invariant (not alphanumeric, or
\* length outside [20,128]) is rejected with valid=false, no organization
\* id/name, no client construction and no provider request.
C4_SyntacticRejectNoCall ==
    (last.op = "validate" /\ ~(20 <= last.key.n /\ last.key.n <= 128 /\ last.key.alnum)) =>
        /\ last.result.kind = "return"
        /\ last.result.valid = FALSE
        /\ last.result.org_id = None /\ last.result.org_name = None
        /\ last.constructs = 0
        /\ last.netcalls = 0

\* A 19-character alphanumeric credential was validated while a client exists.
C4_Witness ==
    /\ last.op = "validate"
    /\ last.key.n = 19 /\ last.key.alnum
    /\ last.result.valid = FALSE
    /\ instance # 0

\* C5: for a syntactically valid credential the validator always returns;
\* valid=true exactly when the client was constructed and the listing returned
\* one or more organizations, with the first organization's id and name;
\* otherwise valid=false with no organization id/name.
C5_ValidIffListingNonEmpty ==
    (last.op = "validate" /\ 20 <= last.key.n /\ last.key.n <= 128 /\ last.key.alnum) =>
        /\ last.result.kind = "return"
        /\ last.result.valid <=>
               (last.ctorOk /\ last.listing.kind = "ok" /\ Len(last.listing.orgs) >= 1)
        /\ last.result.valid =>
               /\ last.result.org_id = Some(last.listing.orgs[1].id)
               /\ last.result.org_name = Some(last.listing.orgs[1].name)
        /\ ~last.result.valid =>
               (last.result.org_id = None /\ last.result.org_name = None)

\* A valid credential was validated against a listing of two organizations.
C5_Witness ==
    /\ last.op = "validate"
    /\ last.result.kind = "return" /\ last.result.valid
    /\ Len(last.listing.orgs) = 2
    /\ last.result.org_id = Some(last.listing.orgs[1].id)

\* A valid credential whose client construction failed was reported invalid.
C5_WitnessCtorFailed ==
    /\ last.op = "validate"
    /\ SyntacticOk(last.key) /\ ~last.ctorOk
    /\ last.result.valid = FALSE /\ last.result.message = "generic"

(***************************************************************************)
(* MerakiOps.get_org_id and MerakiOps.select_organization.                 *)
(*                                                                         *)
(* A selection is the string Prompt.ask returned.  digit is                *)
(* selection.isdigit(); val is int(selection), None when int() raises      *)
(* ValueError.  "sup2" stands for the one-character string U+00B2          *)
(* (superscript two): str.isdigit() accepts it and int() rejects it.       *)
(***************************************************************************)
Sel(t, d, v) == [text |-> t, digit |-> d, val |-> v]

Selections ==
    {Sel("1", TRUE, Some(1)), Sel("2", TRUE, Some(2)), Sel("3", TRUE, Some(3)),
     Sel("0", TRUE, Some(0)), Sel("02", TRUE, Some(2)), Sel("9", TRUE, Some(9)),
     Sel("sup2", TRUE, None),
     Sel("Acme", FALSE, None), Sel("acme", FALSE, None), Sel("ACME", FALSE, None),
     Sel("", FALSE, None), Sel("-1", FALSE, None)}

MaxPrompts == 3

NamePositions(orgs, text) == {i \in 1..Len(orgs) : orgs[i].name = text}

FirstNamed(orgs, text) ==
    CHOOSE i \in NamePositions(orgs, text) : \A j \in NamePositions(orgs, text) : i <= j

OrgPair(org) == <<org.id, org.name>>

\* One iteration of the while loop of select_organization on one selection.
SelectionOutcome(orgs, sel) ==
    IF sel.digit /\ sel.val = None
    THEN [kind |-> "raise", value |-> None]
    ELSE IF sel.digit /\ 1 <= sel.val[1] /\ sel.val[1] <= Len(orgs)
    THEN [kind |-> "return", value |-> Some(OrgPair(orgs[sel.val[1]]))]
    ELSE IF NamePositions(orgs, sel.text) # {}
    THEN [kind |-> "return", value |-> Some(OrgPair(orgs[FirstNamed(orgs, sel.text)]))]
    ELSE [kind |-> "reprompt", value |-> None]

\* A get_org_id that never takes the shortcut.
OneOrgNever(orgs) == FALSE

\* meraki.py:185  len(orgs) == 1
OneOrg(orgs) == Len(orgs) = 1

\* get_org_id after get_orgs returned: one organization is taken without a
\* prompt, any other list goes to select_organization.
GetOrgIdStart ==
    /\ selPc = "start"
    /\ IF OneOrg(selOrgs)
       THEN /\ selPc' = "returned"
            /\ selResult' = Some(OrgPair(selOrgs[1]))
       ELSE /\ selPc' = "prompt"
            /\ UNCHANGED selResult
    /\ UNCHANGED <<selOrgs, selInput, prompts, regVars, thrVars, stoVars, valVars, cmdVars>>

\* Prompt.ask returns sel and the loop body runs once.
PromptSelection(sel) ==
    /\ selPc = "prompt"
    /\ prompts < MaxPrompts
    /\ LET o == SelectionOutcome(selOrgs, sel)
       IN  /\ selPc' = CASE o.kind = "return" -> "returned"
                         [] o.kind = "raise" -> "raised"
                         [] OTHER -> "prompt"
           /\ selResult' = o.value
    /\ selInput' = Some(sel)
    /\ prompts' = prompts + 1
    /\ UNCHANGED <<selOrgs, regVars, thrVars, stoVars, valVars, cmdVars>>

SelNext ==
    \/ GetOrgIdStart
    \/ \E sel \in Selections : PromptSelection(sel)

InitSelect ==
    /\ RegInit /\ ValIdle /\ CmdIdle /\ ThrIdle /\ StoIdle
    /\ selOrgs \in OrgLists
    /\ selPc = "start"
    /\ selInput = None
    /\ selResult = None
    /\ prompts = 0

SpecSelect == InitSelect /\ [][SelNext]_vars

\* The selection denotes a 1-based index of the list.
IsIndexInRange(orgs, sel) ==
    sel.digit /\ sel.val # None /\ 1 <= sel.val[1] /\ sel.val[1] <= Len(orgs)

\* C10: with two or more organizations, a selection that is a 1-based index in
\* range or an exact name returns that organization's id and name; every other
\* selection re-prompts and neither raises nor returns.
C10_OnlyIndexOrNameAccepted ==
    (Len(selOrgs) >= 2 /\ selInput # None) =>
        LET sel == selInput[1]
        IN  /\ IsIndexInRange(selOrgs, sel) =>
                   (selPc = "returned" /\ selResult = Some(OrgPair(selOrgs[sel.val[1]])))
            /\ (~IsIndexInRange(selOrgs, sel) /\ NamePositions(selOrgs, sel.text) # {}) =>
                   /\ selPc = "returned"
                   /\ \E i \in NamePositions(selOrgs, sel.text) :
                          selResult = Some(OrgPair(selOrgs[i]))
            /\ (~IsIndexInRange(selOrgs, sel) /\ NamePositions(selOrgs, sel.text) = {}) =>
                   selPc = "prompt"

\* C10, the inputs whose int() conversion is defined: the claim's behaviour.
C10_DecimalInputsOnly ==
    (Len(selOrgs) >= 2 /\ selInput # None /\ ~(selInput[1].digit /\ selInput[1].val = None))
        => C10_OnlyIndexOrNameAccepted

\* An out-of-range index was re-prompted and a later name was accepted.
C10_Witness ==
    /\ Len(selOrgs) >= 2
    /\ prompts >= 2
    /\ selPc = "returned"
    /\ ~selInput[1].digit

\* C11: for every organization list of exactly one element get_org_id returns
\* that organization's id and name, and it issues no prompt.
C11_SingleOrgNoPrompt ==
    (Len(selOrgs) = 1 /\ selPc # "start") =>
        /\ selPc = "returned"
        /\ selResult = Some(<<selOrgs[1].id, selOrgs[1].name>>)
        /\ prompts = 0
        /\ selInput = None

\* get_org_id has returned for a list holding one organization.
C11_Witness ==
    /\ Len(selOrgs) = 1
    /\ selPc = "returned"
    /\ selResult # None
    /\ prompts = 0

(***************************************************************************)
(* Change records.  A record is a dict: a sequence of <<key, value>> pairs *)
(* in insertion order.  Every value is a string, written as the sequence   *)
(* of its tokens so that the substring test of the filter can be computed. *)
(***************************************************************************)
Field(k, v) == <<k, v>>

RecSwitch == <<Field("ts", <<"t1">>), Field("networkUrl", <<"/n/", "switch", "/1">>)>>

RecWireless == <<Field("ts", <<"t2">>), Field("networkUrl", <<"/n/", "wireless", "/1">>)>>

\* A change with no networkUrl and with a field the others lack.
RecSsid == <<Field("ts", <<"t3">>), Field("ssid", <<"5">>)>>

RecordPool == {RecSwitch, RecWireless, RecSsid}

MaxRecs == 2

RecordLists == UNION {[1..n -> RecordPool] : n \in 0..MaxRecs}

\* dict.keys(), in insertion order.
KeysOf(rec) == [i \in 1..Len(rec) |-> rec[i][1]]

KeySet(rec) == {rec[i][1] : i \in 1..Len(rec)}

\* dict.get(key, default)
Get(rec, key, default) ==
    IF key \in KeySet(rec)
    THEN rec[CHOOSE i \in 1..Len(rec) : rec[i][1] = key][2]
    ELSE default

\* 'switch' in <string>
ContainsSwitch(str) == \E i \in 1..Len(str) : str[i] = "switch"

\* A filter whose default for a missing networkUrl matches.
SwitchOnlyDefaultMatches(config_changes) ==
    SelectSeq(config_changes,
              LAMBDA change : ContainsSwitch(Get(change, "networkUrl", <<"switch">>)))

\* [change for change in config_changes if 'switch' in change.get('networkUrl', '')]
SwitchOnly(config_changes) ==
    SelectSeq(config_changes, LAMBDA change : ContainsSwitch(Get(change, "networkUrl", <<>>)))

(***************************************************************************)
(* MerakiOps.get_org_config_changes and MerakiOps.fetch_config_changes.    *)
(***************************************************************************)
\* What getOrganizationConfigurationChanges does for one network.
FetchOutcomes ==
    {[kind |-> "raise", recs |-> <<>>]} \cup {[kind |-> "ok", recs |-> l] : l \in RecordLists}

ParamNames == {"networkId", "t0", "t1", "timespan"}

\* params of get_org_config_changes with the None values removed.
QueryParams(network_id, t0, t1, timespan) ==
    LET full == [k \in ParamNames |->
                    CASE k = "networkId" -> Some(network_id)
                      [] k = "t0" -> t0
                      [] k = "t1" -> t1
                      [] OTHER -> timespan]
    IN  [k \in {x \in ParamNames : full[x] # None} |-> full[k]]

\* fetch_config_changes: None when the request raised, else the response.
FetchConfigChanges(outcome) ==
    IF outcome.kind = "raise" THEN None ELSE Some(outcome.recs)

\* A guard that refuses only a missing change set.
NonEmptyUnlessNone(config_changes) == config_changes # None

\* Python truthiness of a value that is None or a list.
NonEmpty(config_changes) == config_changes # None /\ config_changes[1] # <<>>

(***************************************************************************)
(* Report emitters (functions/utils.py).  ioOk is whether open() succeeds. *)
(***************************************************************************)
Path(ts, ext) == [ts |-> ts, ext |-> ext]

\* csv.DictWriter with the default extrasaction='raise' and restval=''.
HasExtras(change, fieldnames) ==
    \E k \in KeySet(change) : \A i \in 1..Len(fieldnames) : fieldnames[i] # k

CsvRow(change, fieldnames) == [i \in 1..Len(fieldnames) |-> Get(change, fieldnames[i], <<>>)]

\* The position of the first row writerow() rejects, 0 when it accepts all.
FirstRejected(changes, fieldnames) ==
    IF \E i \in 1..Len(changes) : HasExtras(changes[i], fieldnames)
    THEN CHOOSE i \in 1..Len(changes) :
             /\ HasExtras(changes[i], fieldnames)
             /\ \A j \in 1..(i - 1) : ~HasExtras(changes[j], fieldnames)
    ELSE 0

CsvContent(fieldnames, rows) == [kind |-> "csv", header |-> fieldnames, rows |-> rows]

JsonContent(changes) == [kind |-> "json", header |-> <<>>, rows |-> changes]

Emitted(k, e, ret, write) == [kind |-> k, exc |-> e, ret |-> ret, write |-> write]

\* generate_csv_report.  write is the file content the call leaves at path,
\* None when it leaves the file as it was.
GenerateCsvReport(config_changes, path, ioOk) ==
    IF ~NonEmpty(config_changes)
    THEN Emitted("raise", "ValueError", None, None)
    ELSE IF ~ioOk
    THEN Emitted("return", "", None, None)
    ELSE
        LET changes == config_changes[1]
            fieldnames == KeysOf(changes[1])
            bad == FirstRejected(changes, fieldnames)
            n == IF bad = 0 THEN Len(changes) ELSE bad - 1
            rows == [i \in 1..n |-> CsvRow(changes[i], fieldnames)]
        IN  IF bad = 0
            THEN Emitted("return", "", Some(path), Some(CsvContent(fieldnames, rows)))
            ELSE Emitted("raise", "ValueError", None, Some(CsvContent(fieldnames, rows)))

\* generate_json_report: an IOError is printed and the path is still returned.
GenerateJsonReport(config_changes, path, ioOk) ==
    IF ~NonEmpty(config_changes)
    THEN Emitted("raise", "ValueError", None, None)
    ELSE IF ~ioOk
    THEN Emitted("return", "", Some(path), None)
    ELSE Emitted("return", "", Some(path), Some(JsonContent(config_changes[1])))

\* f"{change}\n": the line holds the dict's default string representation.
TxtLine(change) == <<"str", change>>

TxtContent(changes) ==
    [kind |-> "txt", header |-> <<>>, rows |-> [i \in 1..Len(changes) |-> TxtLine(changes[i])]]

\* generate_txt_report: an IOError is printed and None is returned.
GenerateTxtReport(config_changes, path, ioOk) ==
    IF ~NonEmpty(config_changes)
    THEN Emitted("raise", "ValueError", None, None)
    ELSE IF ~ioOk
    THEN Emitted("return", "", None, None)
    ELSE Emitted("return", "", Some(path), Some(TxtContent(config_changes[1])))

\* One emitter call: where it wrote, whether its file I/O succeeded, how it ended.
Report(fmt, path, ioOk, r) ==
    [fmt |-> fmt, path |-> path, io |-> ioOk, kind |-> r.kind, exc |-> r.exc, ret |-> r.ret]

WriteFile(fs, path, write) == IF write = None THEN fs ELSE (path :> write[1]) @@ fs

(***************************************************************************)
(* get_config_changes_org_wide, from the get_networks call on.             *)
(***************************************************************************)
DefaultTimespan == 864000

NetworkIds == <<"N1", "N2", "N3">>

\* networks = meraki_ops.get_networks(org_id); an empty answer exits.
OwGetNetworks(ns) ==
    /\ pc = "networks"
    /\ nets' = ns
    /\ netcalls' = netcalls + 1
    /\ IF ns = <<>>
       THEN pc' = "exit" /\ idx' = idx
       ELSE pc' = "loop" /\ idx' = 1
    /\ UNCHANGED <<exc, opts, fetched, all_changes, queries, files, reports, now,
                   regVars, thrVars, stoVars, valVars, selVars>>

\* One iteration of the for loop: fetch, filter, extend.
OwIterate(outcome) ==
    /\ pc = "loop"
    /\ idx <= Len(nets)
    /\ LET fetchedChanges == FetchConfigChanges(outcome)
           raises == opts.filter_switch /\ fetchedChanges = None
           config_changes ==
               IF opts.filter_switch /\ fetchedChanges # None
               THEN Some(SwitchOnly(fetchedChanges[1]))
               ELSE fetchedChanges
       IN  /\ queries' = Append(queries, QueryParams(nets[idx], None, None, opts.timespan))
           /\ netcalls' = netcalls + 1
           /\ fetched' = Append(fetched, outcome)
           /\ IF raises
              THEN /\ pc' = "raised"
                   /\ exc' = "TypeError"
                   /\ UNCHANGED <<all_changes, idx>>
              ELSE /\ all_changes' =
                          IF NonEmpty(config_changes)
                          THEN all_changes \o config_changes[1]
                          ELSE all_changes
                   /\ idx' = idx + 1
                   /\ pc' = IF idx = Len(nets) THEN "report" ELSE "loop"
                   /\ UNCHANGED exc
    /\ UNCHANGED <<opts, nets, files, reports, now, regVars, thrVars, stoVars, valVars, selVars>>

\* if all_changes: generate_csv_report(...), else the warning.
OwCsvReport(ioOk) ==
    /\ pc = "report"
    /\ IF all_changes = <<>>
       THEN /\ pc' = "done"
            /\ UNCHANGED <<exc, files, reports>>
       ELSE LET path == Path(now, "csv")
                r == GenerateCsvReport(Some(all_changes), path, ioOk)
            IN  /\ files' = WriteFile(files, path, r.write)
                /\ reports' = Append(reports, Report("csv", path, ioOk, r))
                /\ IF r.kind = "raise"
                   THEN pc' = "raised" /\ exc' = r.exc
                   ELSE pc' = "json" /\ UNCHANGED exc
    /\ UNCHANGED <<opts, nets, idx, fetched, all_changes, queries, netcalls, now,
                   regVars, thrVars, stoVars, valVars, selVars>>

\* generate_json_report(...)
OwJsonReport(ioOk) ==
    /\ pc = "json"
    /\ LET path == Path(now, "json")
           r == GenerateJsonReport(Some(all_changes), path, ioOk)
       IN  /\ files' = WriteFile(files, path, r.write)
           /\ reports' = Append(reports, Report("json", path, ioOk, r))
           /\ IF r.kind = "raise"
              THEN pc' = "raised" /\ exc' = r.exc
              ELSE pc' = "done" /\ UNCHANGED exc
    /\ UNCHANGED <<opts, nets, idx, fetched, all_changes, queries, netcalls, now,
                   regVars, thrVars, stoVars, valVars, selVars>>

OwNext ==
    \/ \E ns \in {<<>>, NetworkIds} : OwGetNetworks(ns)
    \/ \E outcome \in FetchOutcomes : OwIterate(outcome)
    \/ \E ioOk \in BOOLEAN : OwCsvReport(ioOk)
    \/ \E ioOk \in BOOLEAN : OwJsonReport(ioOk)

InitOrgWide ==
    /\ RegIdle /\ ValIdle /\ SelIdle /\ ThrIdle /\ StoIdle
    /\ pc = "networks"
    /\ exc = ""
    /\ opts \in {[NoOpts EXCEPT !.filter_switch = f, !.timespan = Some(DefaultTimespan)]
                    : f \in BOOLEAN}
    /\ nets = <<>>
    /\ idx = 0
    /\ fetched = <<>>
    /\ all_changes = <<>>
    /\ queries = <<>>
    /\ netcalls = 0
    /\ files = NoFiles
    /\ reports = <<>>
    /\ now = 0

SpecOrgWide == InitOrgWide /\ [][OwNext]_vars

(***************************************************************************)
(* Claims about the org-wide aggregation and its reports.                  *)
(***************************************************************************)
RECURSIVE ConcatRecs(_)
\* The records of the successful fetches, in the order the networks were visited.
ConcatRecs(outcomes) ==
    IF outcomes = <<>>
    THEN <<>>
    ELSE ConcatRecs(SubSeq(outcomes, 1, Len(outcomes) - 1)) \o outcomes[Len(outcomes)].recs

\* The record has a networkUrl field whose value contains "switch".
IsSwitchChange(rec) ==
    \E i \in 1..Len(rec) :
        rec[i][1] = "networkUrl" /\ \E j \in 1..Len(rec[i][2]) : rec[i][2][j] = "switch"

Filtered(flag, recs) == IF flag THEN SelectSeq(recs, IsSwitchChange) ELSE recs

AggregationOver == pc \in {"report", "json", "done"} \/ (pc = "raised" /\ reports # <<>>)

CommandOver == pc \in {"done", "raised", "exit"}

\* C2: for either value of the switch filter, when the fetch for N2 raises the
\* aggregation continues with N3, nothing propagates to the caller and the
\* change set holds N1's and N3's records in that order.
C2_FailedFetchIsSkipped ==
    (Len(fetched) >= 2 /\ fetched[1].kind = "ok" /\ fetched[2].kind = "raise") =>
        /\ ~(pc = "raised" /\ reports = <<>>)
        /\ (Len(fetched) = 3 /\ fetched[3].kind = "ok") =>
               all_changes = Filtered(opts.filter_switch,
                                      fetched[1].recs \o fetched[3].recs)

\* C2 without the switch filter: the failed network is skipped.
C2_FailedFetchIsSkippedUnfiltered ==
    ~opts.filter_switch => C2_FailedFetchIsSkipped

\* N2's fetch failed, N1 and N3 returned records and the command finished.
C2_WitnessUnfiltered ==
    /\ ~opts.filter_switch
    /\ pc = "done"
    /\ Len(fetched) = 3
    /\ fetched[2].kind = "raise"
    /\ fetched[1].recs # <<>> /\ fetched[3].recs # <<>>

\* C3: the CSV header is the first record's field set; a later record's extra
\* field is dropped from its row and the emission completes with every row
\* written.
C3_ExtraFieldsDropped ==
    \A i \in 1..Len(reports) :
        (reports[i].fmt = "csv" /\ reports[i].io) =>
            /\ reports[i].kind = "return"
            /\ reports[i].ret = Some(reports[i].path)
            /\ reports[i].path \in DOMAIN files
            /\ files[reports[i].path].header = KeysOf(all_changes[1])
            /\ Len(files[reports[i].path].rows) = Len(all_changes)
            /\ \A r \in 1..Len(all_changes) :
                   files[reports[i].path].rows[r] =
                       [c \in 1..Len(all_changes[1]) |->
                           Get(all_changes[r], all_changes[1][c][1], <<>>)]

\* C3 for change sets in which no record has a field the first lacks.
C3_UniformFieldsWritten ==
    (\A r \in 1..Len(all_changes) : KeySet(all_changes[r]) \subseteq KeySet(all_changes[1]))
        => C3_ExtraFieldsDropped

\* C8: the change set the aggregation hands on equals the filter applied to
\* the concatenation, in network order, of every network's fetched records.
C8_FilterOfConcatenation ==
    AggregationOver => all_changes = Filtered(opts.filter_switch, ConcatRecs(fetched))

\* The filter removed records of a change set gathered from several networks.
C8_Witness ==
    /\ opts.filter_switch
    /\ pc = "done"
    /\ \E i, j \in 1..Len(fetched) : i # j /\ fetched[i].recs # <<>> /\ fetched[j].recs # <<>>
    /\ all_changes # <<>>
    /\ Len(all_changes) < Len(ConcatRecs(fetched))
    /\ fetched[1].recs = <<RecSwitch, RecWireless>>

\* C9: with no filter and no failed fetch the emitters receive the
\* concatenation of the networks' records in visiting order; the JSON report is
\* written from that sequence and the CSV header is the first record's keys.
C9_ReportsFromFullSequence ==
    (/\ CommandOver
     /\ ~opts.filter_switch
     /\ Len(fetched) = Len(NetworkIds)
     /\ \A i \in 1..Len(fetched) : fetched[i].kind = "ok"
     /\ ConcatRecs(fetched) # <<>>) =>
        /\ all_changes = ConcatRecs(fetched)
        /\ Len(reports) = 2
        /\ reports[1].fmt = "csv" /\ reports[2].fmt = "json"
        /\ reports[1].io =>
               /\ reports[1].path \in DOMAIN files
               /\ files[reports[1].path].header = KeysOf(ConcatRecs(fetched)[1])
        /\ reports[2].io =>
               /\ reports[2].path \in DOMAIN files
               /\ files[reports[2].path].rows = ConcatRecs(fetched)

\* C9 for change sets in which no record has a field the first lacks.
C9_UniformFieldsReported ==
    (\A r \in 1..Len(all_changes) : KeySet(all_changes[r]) \subseteq KeySet(all_changes[1]))
        => C9_ReportsFromFullSequence

\* C13: an I/O failure while writing a report is caught inside that format's
\* emitter, which returns None for the format and never the file path; a CSV
\* failure does not keep the JSON report from being emitted.
C13_IOFailureReturnsNone ==
    /\ \A i \in 1..Len(reports) :
           ~reports[i].io => (reports[i].kind = "return" /\ reports[i].ret = None)
    /\ (pc = "done" /\ reports # <<>> /\ ~reports[1].io) =>
           (Len(reports) = 2 /\ reports[2].fmt = "json")

\* C13 for the CSV emitter alone: its I/O failure is caught, it returns None
\* and the JSON emitter still runs.
C13_CsvFailureKeepsJson ==
    /\ \A i \in 1..Len(reports) :
           (reports[i].fmt = "csv" /\ ~reports[i].io) =>
               (reports[i].kind = "return" /\ reports[i].ret = None)
    /\ (pc = "done" /\ reports # <<>> /\ ~reports[1].io) =>
           (Len(reports) = 2 /\ reports[2].fmt = "json")

\* The CSV file could not be opened and the JSON report was written.
C13_WitnessCsvFailed ==
    /\ pc = "done"
    /\ Len(reports) = 2
    /\ ~reports[1].io /\ reports[1].ret = None
    /\ reports[2].io /\ reports[2].path \in DOMAIN files

(***************************************************************************)
(* get_config_changes_network_list, invoked with --api-key.                *)
(***************************************************************************)
\* c.TARGET_NETWORKS
TargetNetworks == <<"L1", "L2">>

\* The credential given on the command line.
CliKey == Key(1, MinKeyLen, TRUE)

WindowT0 == 100

WindowT1 == 200

\* UF.validate_timespan: "exit" is raise typer.Exit(1).
ValidateTimespan(t0, t1, timespan) ==
    IF (t0 = None \/ t1 = None) /\ timespan = None
    THEN "exit"
    ELSE IF (t0 # None /\ t1 = None) \/ (t0 = None /\ t1 # None)
    THEN "exit"
    ELSE "return"

\* UF.check_api_key(api_key) with a key: MerakiOps(api_key) and get_org_id up
\* to the point where the organizations are known.
NlCheckApiKey(ctorOk, listing) ==
    /\ pc = "check"
    /\ LET m == MerakiOps(instance, heap, Some(CliKey), cfgKey, ctorOk)
           o == GetOrgs(m.heap[m.inst], listing)
       IN  /\ instance' = m.inst
           /\ heap' = m.heap
           /\ recent' = Some(CliKey)
           /\ netcalls' = netcalls + m.constructs + o.calls
           /\ IF o.kind = "raise"
              THEN /\ pc' = "raised"
                   /\ exc' = o.exc
                   /\ UNCHANGED <<selOrgs, selPc, selResult>>
              ELSE /\ selOrgs' = o.orgs
                   /\ exc' = exc
                   /\ IF OneOrg(o.orgs)
                      THEN /\ selPc' = "returned"
                           /\ selResult' = Some(OrgPair(o.orgs[1]))
                           /\ pc' = "construct"
                      ELSE /\ selPc' = "prompt"
                           /\ selResult' = selResult
                           /\ pc' = "select"
    /\ UNCHANGED <<cfgKey, held, thrVars, stoVars, valVars, selInput, prompts, opts, nets, idx,
                   fetched, all_changes, queries, files, reports, now>>

\* select_organization inside check_api_key: one prompt.
NlSelect(sel) ==
    /\ pc = "select"
    /\ prompts < MaxPrompts
    /\ LET o == SelectionOutcome(selOrgs, sel)
       IN  /\ selPc' = CASE o.kind = "return" -> "returned"
                         [] o.kind = "raise" -> "raised"
                         [] OTHER -> "prompt"
           /\ selResult' = o.value
           /\ pc' = CASE o.kind = "return" -> "construct"
                      [] o.kind = "raise" -> "raised"
                      [] OTHER -> "select"
           /\ exc' = IF o.kind = "raise" THEN "ValueError" ELSE exc
    /\ selInput' = Some(sel)
    /\ prompts' = prompts + 1
    /\ UNCHANGED <<selOrgs, regVars, thrVars, stoVars, valVars, opts, nets, idx, fetched,
                   all_changes, queries, netcalls, files, reports, now>>

\* meraki_ops = MerakiOps(api_key=api_key) of the command itself.
NlConstruct(ctorOk) ==
    /\ pc = "construct"
    /\ LET m == MerakiOps(instance, heap, Some(CliKey), cfgKey, ctorOk)
       IN  /\ instance' = m.inst
           /\ heap' = m.heap
           /\ recent' = Some(CliKey)
           /\ netcalls' = netcalls + m.constructs
    /\ pc' = "validate"
    \* check_api_key has returned: of its locals only org_id is kept.
    /\ selOrgs' = <<>>
    /\ selPc' = "idle"
    /\ selInput' = None
    /\ prompts' = 0
    /\ UNCHANGED <<cfgKey, held, thrVars, stoVars, valVars, selResult, exc, opts, nets, idx,
                   fetched, all_changes, queries, files, reports, now>>

\* t0, t1, timespan = UF.validate_timespan(t0, t1, timespan)
NlValidateTimespan ==
    /\ pc = "validate"
    /\ IF ValidateTimespan(opts.t0, opts.t1, opts.timespan) = "exit"
       THEN pc' = "exit" /\ UNCHANGED <<nets, idx>>
       ELSE pc' = "nlloop" /\ nets' = TargetNetworks /\ idx' = 1
    /\ UNCHANGED <<regVars, thrVars, stoVars, valVars, selVars, exc, opts, fetched,
                   all_changes, queries, netcalls, files, reports, now>>

\* One iteration of the for loop over the network list: fetch with the
\* timespan only, filter, generate_csv_report; every Exception is logged.
NlIterate(outcome, ioOk) ==
    /\ pc = "nlloop"
    /\ idx <= Len(nets)
    /\ LET fetchedChanges ==
               IF heap[instance].dashboard THEN FetchConfigChanges(outcome) ELSE None
           filterRaises == opts.filter_switch /\ fetchedChanges = None
           config_changes ==
               IF opts.filter_switch /\ fetchedChanges # None
               THEN Some(SwitchOnly(fetchedChanges[1]))
               ELSE fetchedChanges
           path == Path(now, "csv")
           r == GenerateCsvReport(config_changes, path, ioOk)
       IN  /\ IF heap[instance].dashboard
              THEN /\ queries' = Append(queries,
                                        QueryParams(nets[idx], None, None, opts.timespan))
                   /\ netcalls' = netcalls + 1
                   /\ fetched' = Append(fetched, outcome)
              ELSE /\ fetched' = Append(fetched, [kind |-> "raise", recs |-> <<>>])
                   /\ UNCHANGED <<queries, netcalls>>
           /\ IF filterRaises
              THEN UNCHANGED <<files, reports>>
              ELSE /\ files' = WriteFile(files, path, r.write)
                   /\ reports' = Append(reports, Report("csv", path, ioOk, r))
    /\ idx' = idx + 1
    /\ pc' = IF idx = Len(nets) THEN "done" ELSE "nlloop"
    /\ UNCHANGED <<regVars, thrVars, stoVars, valVars, selVars, exc, opts, nets, all_changes, now>>

MaxClock == 1

\* A second passes between two iterations.
Tick ==
    /\ pc = "nlloop"
    /\ now < MaxClock
    /\ now' = now + 1
    /\ UNCHANGED <<pc, exc, opts, nets, idx, fetched, all_changes, queries, netcalls, files,
                   reports, regVars, thrVars, stoVars, valVars, selVars>>

NlNext ==
    \/ \E ctorOk \in BOOLEAN, listing \in Listings : NlCheckApiKey(ctorOk, listing)
    \/ \E sel \in Selections : NlSelect(sel)
    \/ \E ctorOk \in BOOLEAN : NlConstruct(ctorOk)
    \/ NlValidateTimespan
    \/ \E outcome \in FetchOutcomes, ioOk \in BOOLEAN : NlIterate(outcome, ioOk)
    \/ Tick

InitNetList ==
    /\ RegIdle /\ ValIdle /\ SelIdle /\ ThrIdle /\ StoIdle
    /\ pc = "check"
    /\ exc = ""
    /\ opts \in {[filter_switch |-> f, timespan |-> ts, t0 |-> a, t1 |-> b] :
                    f \in BOOLEAN, ts \in {None, Some(DefaultTimespan)},
                    a \in {None, Some(WindowT0)}, b \in {None, Some(WindowT1)}}
    /\ nets = <<>>
    /\ idx = 0
    /\ fetched = <<>>
    /\ all_changes = <<>>
    /\ queries = <<>>
    /\ netcalls = 0
    /\ files = NoFiles
    /\ reports = <<>>
    /\ now = 0

SpecNetList == InitNetList /\ [][NlNext]_vars

(***************************************************************************)
(* Claims about the time window.                                           *)
(***************************************************************************)
\* Neither timespan nor the pair is supplied, or exactly one of t0 and t1 is.
WindowRefused(o) ==
    \/ o.timespan = None /\ ~(o.t0 # None /\ o.t1 # None)
    \/ (o.t0 # None) # (o.t1 # None)

\* Exactly one of the two representations is populated, the other is absent.
OnlyTimespan(hasTimespan, hasT0, hasT1) == hasTimespan /\ ~hasT0 /\ ~hasT1

OnlyPair(hasTimespan, hasT0, hasT1) == ~hasTimespan /\ hasT0 /\ hasT1

ExactlyOneRepresentation(hasTimespan, hasT0, hasT1) ==
    OnlyTimespan(hasTimespan, hasT0, hasT1) \/ OnlyPair(hasTimespan, hasT0, hasT1)

PastValidation == pc \in {"nlloop", "done"}

\* C6: a refused window terminates the command, and it does so before any
\* network call (client construction, organization listing, change fetch).
C6_RefusedBeforeAnyNetworkCall ==
    WindowRefused(opts) =>
        /\ ~PastValidation
        /\ queries = <<>>
        /\ pc = "exit" => netcalls = 0

\* C6, the part about the change fetch: a refused window never gets past
\* validation and no change query is sent for it.
C6_RefusedBeforeAnyFetch ==
    WindowRefused(opts) => (~PastValidation /\ queries = <<>>)

\* C7: a window that passed validation, and every provider query built from it,
\* has exactly one of the two representations populated.
C7_ExactlyOneRepresentation ==
    /\ PastValidation =>
           ExactlyOneRepresentation(opts.timespan # None, opts.t0 # None, opts.t1 # None)
    /\ \A i \in 1..Len(queries) :
           ExactlyOneRepresentation("timespan" \in DOMAIN queries[i],
                                    "t0" \in DOMAIN queries[i], "t1" \in DOMAIN queries[i])

\* C7, the part that holds: no query carries both representations, and a
\* field that is None is never sent.
C7_NeverBothInQuery ==
    \A i \in 1..Len(queries) :
        /\ ~("timespan" \in DOMAIN queries[i] /\ "t0" \in DOMAIN queries[i])
        /\ \A k \in DOMAIN queries[i] : queries[i][k] # None

\* C18: a report file is immutable once created: no later emit call of the same
\* invocation overwrites or changes a file an earlier emit call wrote.
C18_ReportFilesImmutable ==
    [][\A p \in DOMAIN files : p \in DOMAIN files' /\ files'[p] = files[p]]_vars

\* C18 for emit calls made in different seconds: the later call writes a file
\* of its own.
C18_DistinctSecondsDistinctFiles ==
    (/\ Len(reports) = 2
     /\ reports[1].ret # None /\ reports[2].ret # None
     /\ reports[1].path # reports[2].path) =>
        /\ reports[1].path \in DOMAIN files
        /\ Len(files[reports[1].path].rows) = Len(Filtered(opts.filter_switch, fetched[1].recs))

\* Two networks were reported in two different seconds.
C18_WitnessDistinctSeconds ==
    /\ pc = "done"
    /\ Len(reports) = 2
    /\ reports[1].ret # None /\ reports[2].ret # None
    /\ reports[1].path # reports[2].path

WindowFields == {"t0", "t1", "timespan"}

\* C19: the window fields that reach the provider query are exactly the window
\* fields that passed validation, with their values: a command given the pair
\* (t0, t1) and no timespan queries each network with that t0 and t1.
C19_QueryCarriesValidatedWindow ==
    \A i \in 1..Len(queries) :
        \A f \in WindowFields :
            /\ (f \in DOMAIN queries[i]) <=> (opts[f] # None)
            /\ (f \in DOMAIN queries[i]) => queries[i][f] = opts[f]

\* C19 for the timespan: a supplied timespan reaches every query unchanged, in
\* a query for the network being visited.
C19_TimespanReachesQuery ==
    \A i \in 1..Len(queries) :
        /\ queries[i]["networkId"] = Some(nets[i])
        /\ ("timespan" \in DOMAIN queries[i]) <=> (opts.timespan # None)
        /\ ("timespan" \in DOMAIN queries[i]) => queries[i]["timespan"] = opts.timespan

\* Both networks were queried for a command given a timespan only.
C19_WitnessTimespan ==
    /\ pc = "done"
    /\ Len(queries) = Len(TargetNetworks)
    /\ opts.timespan # None /\ opts.t0 = None /\ opts.t1 = None
    /\ "timespan" \in DOMAIN queries[2]

\* C14: a result of zero records, also zero records left after filtering, is
\* a "nothing to report" outcome: no report emitter is invoked for it and no
\* error is raised or reported.  Stated for the network-list command.
C14_EmptyResultSkipsEmission ==
    (/\ pc = "done"
     /\ \A i \in 1..Len(fetched) :
            fetched[i].kind = "ok" /\ Filtered(opts.filter_switch, fetched[i].recs) = <<>>) =>
        (reports = <<>> /\ exc = "")

\* C14 for the org-wide command: an empty aggregation ends the command with
\* no emitter call, no file and no exception.
C14_OrgWideEmptySkipsEmission ==
    (pc = "done" /\ all_changes = <<>>) =>
        (reports = <<>> /\ files = NoFiles /\ exc = "")

\* The org-wide command ended with every fetched record filtered out.
C14_WitnessOrgWide ==
    /\ pc = "done"
    /\ opts.filter_switch
    /\ all_changes = <<>>
    /\ \E i \in 1..Len(fetched) : fetched[i].recs # <<>>

(***************************************************************************)
(* The report emitters on their own.  open(path, 'w') creates or truncates *)
(* the file before a row is written, so an emission is two steps: the      *)
(* guard and open(), then the writes inside the with block.                *)
(***************************************************************************)
Formats == {"json", "csv", "txt"}

MaxEmits == 1

\* A data folder that holds the report of an earlier run.
OlderReport == (Path(-1, "json") :> JsonContent(<<RecSwitch>>))

\* The change sets an emitter can be handed: None or a list.
ChangeSets == {None} \cup {Some(l) : l \in RecordLists}

Generate(fmt, config_changes, path, ioOk) ==
    CASE fmt = "json" -> GenerateJsonReport(config_changes, path, ioOk)
      [] fmt = "csv" -> GenerateCsvReport(config_changes, path, ioOk)
      [] OTHER -> GenerateTxtReport(config_changes, path, ioOk)

\* The file right after open(path, 'w').
OpenedFile(fmt) == [kind |-> fmt, header |-> <<>>, rows |-> <<>>]

\* What each emitter returns from its except IOError branch.
AfterIOError(fmt, path) ==
    IF fmt = "json"
    THEN Emitted("return", "", Some(path), None)
    ELSE Emitted("return", "", None, None)

\* The file an emission that runs to its end leaves.
Payload(fmt, changes) ==
    CASE fmt = "json" -> JsonContent(changes)
      [] fmt = "csv" ->
            CsvContent(KeysOf(changes[1]),
                       [i \in 1..Len(changes) |-> CsvRow(changes[i], KeysOf(changes[1]))])
      [] OTHER -> TxtContent(changes)

\* The file after the first n rows were written.
Partial(fmt, changes, n) ==
    [Payload(fmt, changes) EXCEPT !.rows = SubSeq(Payload(fmt, changes).rows, 1, n)]

\* An emitter is called: the guard, the timestamp and open().
EmitBegin(fmt, config_changes, ioOk) ==
    /\ pc = "ready"
    /\ Len(reports) < MaxEmits
    /\ LET path == Path(now, fmt)
           r == Generate(fmt, config_changes, path, ioOk)
       IN  /\ last' = [op |-> "emit", fmt |-> fmt, input |-> config_changes, path |-> path,
                       before |-> files]
           /\ IF NonEmpty(config_changes) /\ ioOk
              THEN /\ files' = (path :> OpenedFile(fmt)) @@ files
                   /\ pc' = "writing"
                   /\ UNCHANGED reports
              ELSE /\ reports' = Append(reports, Report(fmt, path, ioOk, r))
                   /\ UNCHANGED <<files, pc>>
    /\ UNCHANGED <<exc, opts, nets, idx, fetched, all_changes, queries, netcalls, now,
                   regVars, selVars, thrVars, stoVars>>

\* The with block: rows are written in order; the write after the first
\* `written` rows fails with an IOError unless every row was written.
EmitFinish(written) ==
    /\ pc = "writing"
    /\ written \in 0..Len(last.input[1])
    /\ LET changes == last.input[1]
           bad == IF last.fmt = "csv" THEN FirstRejected(changes, KeysOf(changes[1])) ELSE 0
           ioError == written < Len(changes) /\ (bad = 0 \/ written + 1 < bad)
           r == Generate(last.fmt, last.input, last.path, TRUE)
       IN  IF ioError
           THEN /\ files' = (last.path :> Partial(last.fmt, changes, written)) @@ files
                /\ reports' = Append(reports, Report(last.fmt, last.path, FALSE,
                                                     AfterIOError(last.fmt, last.path)))
           ELSE /\ files' = WriteFile(files, last.path, r.write)
                /\ reports' = Append(reports, Report(last.fmt, last.path, TRUE, r))
    /\ pc' = "ready"
    /\ UNCHANGED <<exc, opts, nets, idx, fetched, all_changes, queries, netcalls, now,
                   regVars, valVars, selVars, thrVars, stoVars>>

EmitNext ==
    \/ \E fmt \in Formats, config_changes \in ChangeSets, ioOk \in BOOLEAN :
           EmitBegin(fmt, config_changes, ioOk)
    \/ \E written \in 0..MaxRecs : EmitFinish(written)

InitEmit ==
    /\ RegIdle /\ ValIdle /\ SelIdle /\ ThrIdle /\ StoIdle
    /\ pc = "ready"
    /\ exc = ""
    /\ opts = NoOpts
    /\ nets = <<>>
    /\ idx = 0
    /\ fetched = <<>>
    /\ all_changes = <<>>
    /\ queries = <<>>
    /\ netcalls = 0
    /\ files \in {NoFiles, OlderReport}
    /\ reports = <<>>
    /\ now = 0

SpecEmit == InitEmit /\ [][EmitNext]_vars

\* C12: each emitter (JSON, CSV, text) called with an empty or missing change
\* set raises ValueError and creates or modifies no file.
C12_EmptyChangeSetRefused ==
    (last.op = "emit" /\ (last.input = None \/ last.input = Some(<<>>))) =>
        /\ pc = "ready"
        /\ reports # <<>>
        /\ reports[Len(reports)].fmt = last.fmt
        /\ reports[Len(reports)].kind = "raise"
        /\ reports[Len(reports)].exc = "ValueError"
        /\ files = last.before

\* The text emitter refused an empty list while an earlier report was on disk.
C12_Witness ==
    /\ last.op = "emit"
    /\ last.fmt = "txt"
    /\ last.input = Some(<<>>)
    /\ Len(reports) = 1
    /\ reports[1].kind = "raise"
    /\ files = OlderReport

\* C17: wherever the process is stopped, a report file either does not exist
\* (the data folder is as it was before the emitter call) or holds the complete
\* payload of the change set being emitted; this includes an emission that
\* fails while writing rows.
C17_NoPartialFile ==
    last.op = "emit" =>
        \/ files = last.before
        \/ /\ NonEmpty(last.input)
           /\ files = (last.path :> Payload(last.fmt, last.input[1])) @@ last.before

\* C17 for emitter calls that ran to their end without a failing write and
\* without a rejected row: the file holds the complete payload.
C17_CompletedEmissionIsWhole ==
    (/\ last.op = "emit"
     /\ pc = "ready"
     /\ reports # <<>>
     /\ reports[Len(reports)].io
     /\ reports[Len(reports)].kind = "return") => C17_NoPartialFile

(***************************************************************************)
(* Threads calling MerakiOps(api_key) and MerakiOps.get_instance().        *)
(* __new__ runs under cls._lock, so its check-and-create is one step;      *)
(* __init__ and get_instance take no lock, so their statements interleave. *)
(***************************************************************************)
MaxCtors == 2

ThreadKeys == {CliKey, Key(2, MinKeyLen, TRUE)}

\* Thread t calls MerakiOps(api_key=k).
ThCallMerakiOps(t, k) ==
    /\ tpc[t] \in {"idle", "done"}
    /\ ctors < MaxCtors
    /\ tpc' = [tpc EXCEPT ![t] = "new"]
    /\ targ' = [targ EXCEPT ![t] = Some(k)]
    /\ UNCHANGED <<ctors, regVars, valVars, selVars, cmdVars, stoVars>>

\* Thread t calls MerakiOps.get_instance() and evaluates cls._instance is None:
\* cls() when it is, return cls._instance when it is not.
ThCallGetInstance(t) ==
    /\ tpc[t] \in {"idle", "done"}
    /\ ctors < MaxCtors
    /\ tpc' = [tpc EXCEPT ![t] = IF instance = 0 THEN "new" ELSE "done"]
    /\ targ' = [targ EXCEPT ![t] = None]
    /\ UNCHANGED <<ctors, regVars, valVars, selVars, cmdVars, stoVars>>

\* __new__, inside `with cls._lock`.
ThNew(t) ==
    /\ tpc[t] = "new"
    /\ LET n == MerakiNew(instance, heap)
       IN  instance' = n.inst /\ heap' = n.heap
    /\ tpc' = [tpc EXCEPT ![t] = "init"]
    /\ UNCHANGED <<targ, ctors, cfgKey, held, recent, valVars, selVars, cmdVars, stoVars>>

\* __init__ up to the call of initialize_dashboard: api_key is bound,
\* dashboard is set to None and _initialized to False.
ThInitReset(t) ==
    /\ tpc[t] = "init"
    /\ LET k == EffectiveKey(targ[t], cfgKey)
       IN  IF k = None
           THEN /\ tpc' = [tpc EXCEPT ![t] = "raised"]
                /\ UNCHANGED heap
           ELSE /\ tpc' = [tpc EXCEPT ![t] = "dash"]
                /\ heap' = [heap EXCEPT ![instance] = MerakiInit(k[1], FALSE)]
    /\ UNCHANGED <<targ, ctors, instance, cfgKey, held, recent, valVars, selVars, cmdVars,
                   stoVars>>

\* initialize_dashboard: meraki.DashboardAPI(api_key=self.api_key, ...) is
\* called with the key the instance holds at that moment; a constructed
\* client is stored, a failure is logged.
ThInitDashboard(t, ctorOk) ==
    /\ tpc[t] = "dash"
    /\ heap' = [heap EXCEPT ![instance] = MerakiInit(heap[instance].api_key[1], ctorOk)]
    /\ ctors' = IF ctorOk THEN ctors + 1 ELSE ctors
    /\ tpc' = [tpc EXCEPT ![t] = "done"]
    /\ UNCHANGED <<targ, instance, cfgKey, held, recent, valVars, selVars, cmdVars, stoVars>>

ThrNext ==
    \/ \E t \in Threads, k \in ThreadKeys : ThCallMerakiOps(t, k)
    \/ \E t \in Threads : ThCallGetInstance(t)
    \/ \E t \in Threads : ThNew(t)
    \/ \E t \in Threads : ThInitReset(t)
    \/ \E t \in Threads, ctorOk \in BOOLEAN : ThInitDashboard(t, ctorOk)

InitThreads == RegInit /\ ValIdle /\ SelIdle /\ CmdIdle /\ ThrIdle /\ StoIdle

SpecThreads == InitThreads /\ [][ThrNext]_vars

\* C15: under any interleaving of threads calling MerakiOps(...) or
\* get_instance() the dashboard client is constructed once, and a thread that
\* holds the shared instance never finds another thread between the reset of
\* its dashboard and the construction of a new one.
C15_OneConstructionNoReinit ==
    /\ ctors <= 1
    /\ \A t, u \in Threads : (t # u /\ tpc[t] = "done") => tpc[u] # "dash"

\* C15, the part the lock of __new__ gives: one object is ever allocated, and
\* every thread works on it.
C15_OneObjectAllocated ==
    /\ Len(heap) <= 1
    /\ instance = Len(heap)

\* Two threads were inside __init__ of the one shared object at once.
C15_WitnessOneObject ==
    /\ tpc["t1"] = "dash" /\ tpc["t2"] = "dash"
    /\ Len(heap) = 1
    /\ targ["t1"] # targ["t2"]

(***************************************************************************)
(* EM.set_meraki_api_key and EM.set_env_var (env_manager/em.py).           *)
(*                                                                         *)
(* A variable name is the sequence of its pieces; an organization name is  *)
(* split into the pieces str.replace(" ", "_") tells apart.                *)
(***************************************************************************)
SpacedOrg == Org("o4", "Acme Corp")

\* The organization lists the provider returns to set_meraki_api_key.
SetKeyOrgLists ==
    {<<>>, <<Org("o1", "Acme")>>, <<SpacedOrg>>, <<Org("o1", "Acme"), SpacedOrg>>,
     <<SpacedOrg, Org("o1", "Acme")>>}

SetKeyListings ==
    {[kind |-> "ok", orgs |-> l] : l \in SetKeyOrgLists}
        \cup {[kind |-> "APIError", orgs |-> <<>>], [kind |-> "Exception", orgs |-> <<>>]}

\* The pieces of a name: runs without a space, and the spaces between them.
NameTokens(nm) ==
    CASE nm = "Acme Corp" -> <<"Acme", " ", "Corp">>
      [] OTHER -> <<nm>>

\* org_name.replace(" ", "_")
ReplaceSpaces(tokens) == [i \in 1..Len(tokens) |-> IF tokens[i] = " " THEN "_" ELSE tokens[i]]

\* f"MERAKI_API_KEY_{org_name}"
VarName(org_name) == <<"MERAKI_API_KEY_">> \o org_name

\* A set_meraki_api_key that persists whatever the validator said.
ShouldPersistAlways(is_valid) == TRUE

\* em.py:129  if is_valid:
ShouldPersist(is_valid) == is_valid

SetResult(v, m, oid, onm) == [valid |-> v, message |-> m, org_id |-> oid, org_name |-> onm]

\* set_meraki_api_key(api_key=k) up to the point where get_org_id knows the
\* organizations: MerakiOps(api_key=k) and get_orgs.
SkCall(k, ctorOk, listing) ==
    /\ pc = "setkey"
    /\ entered' = Some(k)
    /\ IF ~Truthy(k)
       THEN /\ setResult' = Some(SetResult(FALSE, "not provided", None, None))
            /\ pc' = "returned"
            /\ UNCHANGED <<instance, heap, recent, netcalls, exc, selOrgs, selPc, selResult>>
       ELSE LET m == MerakiOps(instance, heap, Some(k), cfgKey, ctorOk)
                o == GetOrgs(m.heap[m.inst], listing)
            IN  /\ instance' = m.inst
                /\ heap' = m.heap
                /\ recent' = Some(k)
                /\ netcalls' = netcalls + m.constructs + o.calls
                /\ UNCHANGED setResult
                /\ IF o.kind = "raise"
                   THEN /\ pc' = "raised"
                        /\ exc' = o.exc
                        /\ UNCHANGED <<selOrgs, selPc, selResult>>
                   ELSE /\ selOrgs' = o.orgs
                        /\ exc' = exc
                        /\ IF OneOrg(o.orgs)
                           THEN /\ selPc' = "returned"
                                /\ selResult' = Some(OrgPair(o.orgs[1]))
                                /\ pc' = "skvalidate"
                           ELSE /\ selPc' = "prompt"
                                /\ selResult' = selResult
                                /\ pc' = "skselect"
    /\ UNCHANGED <<cfgKey, held, valVars, selInput, prompts, opts, nets, idx, fetched,
                   all_changes, queries, files, reports, now, thrVars, environ, dotenv>>

\* select_organization inside get_org_id: one prompt.
SkSelect(sel) ==
    /\ pc = "skselect"
    /\ prompts < MaxPrompts
    /\ LET o == SelectionOutcome(selOrgs, sel)
       IN  /\ selPc' = CASE o.kind = "return" -> "returned"
                         [] o.kind = "raise" -> "raised"
                         [] OTHER -> "prompt"
           /\ selResult' = o.value
           /\ pc' = CASE o.kind = "return" -> "skvalidate"
                      [] o.kind = "raise" -> "raised"
                      [] OTHER -> "skselect"
           /\ exc' = IF o.kind = "raise" THEN "ValueError" ELSE exc
    /\ selInput' = Some(sel)
    /\ prompts' = prompts + 1
    /\ UNCHANGED <<selOrgs, regVars, valVars, opts, nets, idx, fetched, all_changes, queries,
                   netcalls, files, reports, now, thrVars, stoVars>>

\* The rest of set_meraki_api_key: the name is derived, the key is validated
\* and, when valid, set_env_var stores it in os.environ and, with set_key, in
\* the .env file (setOk is whether set_key could write the file).
SkValidate(ctorOk, listing, setOk) ==
    /\ pc = "skvalidate"
    /\ LET k == entered[1]
           org_id == selResult[1][1]
           org_name == ReplaceSpaces(NameTokens(selResult[1][2]))
           new_api_key == VarName(org_name)
           v == ValidateKey(instance, heap, k, cfgKey, ctorOk, listing)
       IN  /\ instance' = v.inst
           /\ heap' = v.heap
           /\ recent' = IF v.constructs > 0 THEN Some(k) ELSE recent
           /\ netcalls' = netcalls + v.constructs + v.netcalls
           /\ last' = [op |-> "validate", key |-> k, ctorOk |-> ctorOk, listing |-> listing,
                       result |-> v.result, constructs |-> v.constructs,
                       netcalls |-> v.netcalls]
           /\ IF ShouldPersist(v.result.valid)
              THEN /\ environ' = (new_api_key :> k) @@ environ
                   /\ IF setOk
                      THEN /\ dotenv' = (new_api_key :> k) @@ dotenv
                           /\ setResult' = Some(SetResult(v.result.valid, v.result.message,
                                                          Some(org_id), Some(org_name)))
                           /\ pc' = "returned"
                           /\ UNCHANGED exc
                      ELSE /\ pc' = "raised"
                           /\ exc' = "OSError"
                           /\ UNCHANGED <<dotenv, setResult>>
              ELSE /\ setResult' = Some(SetResult(v.result.valid, v.result.message, None, None))
                   /\ pc' = "returned"
                   /\ UNCHANGED <<environ, dotenv, exc>>
    /\ UNCHANGED <<cfgKey, held, selVars, opts, nets, idx, fetched, all_changes, queries,
                   files, reports, now, thrVars, entered>>

SkNext ==
    \/ \E k \in Keys, ctorOk \in BOOLEAN, listing \in SetKeyListings : SkCall(k, ctorOk, listing)
    \/ \E sel \in Selections : SkSelect(sel)
    \/ \E ctorOk \in BOOLEAN, listing \in SetKeyListings, setOk \in BOOLEAN :
           SkValidate(ctorOk, listing, setOk)

InitSetKey ==
    /\ RegIdle /\ ValIdle /\ SelIdle /\ ThrIdle /\ StoIdle
    /\ pc = "setkey"
    /\ exc = ""
    /\ opts = NoOpts
    /\ nets = <<>>
    /\ idx = 0
    /\ fetched = <<>>
    /\ all_changes = <<>>
    /\ queries = <<>>
    /\ netcalls = 0
    /\ files = NoFiles
    /\ reports = <<>>
    /\ now = 0

SpecSetKey == InitSetKey /\ [][SkNext]_vars

\* The names under which a credential is stored, in os.environ or in .env.
Persisted == DOMAIN environ \cup DOMAIN dotenv

\* The name the claim derives from the selected organization.
IsDerivedName(n, nm) ==
    LET tok == NameTokens(nm)
    IN  /\ Len(n) = Len(tok) + 1
        /\ n[1] = "MERAKI_API_KEY_"
        /\ \A i \in 1..Len(tok) : n[i + 1] = (IF tok[i] = " " THEN "_" ELSE tok[i])

\* C20: a credential is stored, in os.environ and the .env file under
\* MERAKI_API_KEY_<organization name, spaces as underscores>, only after
\* validate_meraki_api_key returned valid=true for that same credential; when
\* validation fails nothing is stored and set_meraki_api_key returns no
\* organization id/name.
C20_PersistedOnlyAfterValid ==
    /\ \A n \in Persisted :
           /\ last.op = "validate" /\ last.result.valid /\ last.key = entered[1]
           /\ IsDerivedName(n, selResult[1][2])
           /\ n \in DOMAIN environ /\ environ[n] = entered[1]
           /\ n \in DOMAIN dotenv => dotenv[n] = entered[1]
    /\ (pc = "returned" /\ setResult[1].valid) =>
           (DOMAIN environ = DOMAIN dotenv /\ Cardinality(Persisted) = 1)
    /\ (pc = "returned" /\ ~setResult[1].valid) =>
           /\ Persisted = {}
           /\ setResult[1].org_id = None /\ setResult[1].org_name = None

\* A credential was stored under the name of an organization, picked at the
\* prompt, whose name holds a space.
C20_Witness ==
    /\ pc = "returned"
    /\ setResult[1].valid
    /\ prompts >= 1
    /\ selResult[1][2] = "Acme Corp"
    /\ <<"MERAKI_API_KEY_", "Acme", "_", "Corp">> \in DOMAIN dotenv

\* The validator refused a credential for which an organization had been chosen.
C20_WitnessRefused ==
    /\ pc = "returned"
    /\ last.op = "validate" /\ ~last.result.valid
    /\ selResult # None
    /\ Persisted = {}

\* C21: on the set_meraki_api_key path no client is constructed and no network
\* call is made with a credential that has not passed the syntactic check: a
\* credential that is not alphanumeric of length 20 to 128 causes zero client
\* constructions and zero provider requests.
C21_NoCallBeforeSyntacticCheck ==
    (/\ entered # None
     /\ ~(20 <= entered[1].n /\ entered[1].n <= 128 /\ entered[1].alnum)) =>
        (netcalls = 0 /\ instance = 0 /\ prompts = 0)

\* C21 for the empty credential: set_meraki_api_key returns at once, with no
\* client and no request.
C21_EmptyKeyNoCall ==
    (entered # None /\ entered[1].n = 0) =>
        (pc = "returned" /\ netcalls = 0 /\ instance = 0 /\ prompts = 0)

\* set_meraki_api_key returned for an empty credential.
C21_WitnessEmptyKey ==
    /\ entered # None
    /\ entered[1].n = 0
    /\ pc = "returned"
    /\ ~setResult[1].valid

(***************************************************************************)
(* UF.check_api_key without --api-key, the user choosing "Enter a new API  *)
(* key", inside get_config_changes_org_wide.                               *)
(***************************************************************************)
\* typer.prompt returns a non-empty string.
PromptedKeys == {k \in Keys : Truthy(k)}

\* check_api_key returns (api_key, org_id) with the org_id set_meraki_api_key
\* returned, and the command builds its client: MerakiOps(api_key=api_key).
CkReturn(ctorOk) ==
    /\ pc = "returned"
    /\ LET m == MerakiOps(instance, heap, entered, cfgKey, ctorOk)
       IN  /\ instance' = m.inst
           /\ heap' = m.heap
           /\ recent' = entered
           /\ netcalls' = netcalls + m.constructs
    /\ pc' = "networks"
    /\ UNCHANGED <<cfgKey, held, valVars, selVars, exc, opts, nets, idx, fetched, all_changes,
                   queries, files, reports, now, thrVars, stoVars>>

\* networks = meraki_ops.get_networks(org_id=org_id): the request is sent with
\* whatever org_id check_api_key returned; the provider answers or refuses.
CkGetNetworks(ns, ok) ==
    /\ pc = "networks"
    /\ IF ~heap[instance].dashboard
       THEN /\ pc' = "raised"
            /\ exc' = "AttributeError"
            /\ UNCHANGED <<nets, idx, netcalls>>
       ELSE /\ netcalls' = netcalls + 1
            /\ IF ~ok
               THEN pc' = "raised" /\ exc' = "APIError" /\ UNCHANGED <<nets, idx>>
               ELSE /\ nets' = ns
                    /\ exc' = exc
                    /\ IF ns = <<>>
                       THEN pc' = "exit" /\ idx' = idx
                       ELSE pc' = "loop" /\ idx' = 1
    /\ UNCHANGED <<opts, fetched, all_changes, queries, files, reports, now,
                   regVars, valVars, selVars, thrVars, stoVars>>

NewKeyNext ==
    \/ \E k \in PromptedKeys, ctorOk \in BOOLEAN, listing \in SetKeyListings :
           SkCall(k, ctorOk, listing)
    \/ \E sel \in Selections : SkSelect(sel)
    \/ \E ctorOk \in BOOLEAN, listing \in SetKeyListings, setOk \in BOOLEAN :
           SkValidate(ctorOk, listing, setOk)
    \/ \E ctorOk \in BOOLEAN : CkReturn(ctorOk)
    \/ \E ns \in {<<>>, NetworkIds}, ok \in BOOLEAN : CkGetNetworks(ns, ok)

InitNewKey ==
    /\ RegIdle /\ ValIdle /\ SelIdle /\ ThrIdle /\ StoIdle
    /\ pc = "setkey"
    /\ exc = ""
    /\ opts = [NoOpts EXCEPT !.timespan = Some(DefaultTimespan)]
    /\ nets = <<>>
    /\ idx = 0
    /\ fetched = <<>>
    /\ all_changes = <<>>
    /\ queries = <<>>
    /\ netcalls = 0
    /\ files = NoFiles
    /\ reports = <<>>
    /\ now = 0

SpecNewKey == InitNewKey /\ [][NewKeyNext]_vars

\* check_api_key has returned to the command.
PastCheck == pc \in {"networks", "loop", "exit"}

\* C22: a command goes past check_api_key only with a credential whose
\* validation succeeded and with an organization id; a newly entered key that
\* validate_meraki_api_key refused never reaches the network listing.
C22_NoProgressAfterFailedValidation ==
    PastCheck =>
        /\ setResult # None
        /\ setResult[1].valid
        /\ setResult[1].org_id # None

\* C22 for a credential the validator accepted: the command goes on with the
\* organization id that get_org_id resolved.
C22_ValidKeyCarriesOrgId ==
    (PastCheck /\ setResult[1].valid) =>
        /\ setResult[1].org_id = Some(selResult[1][1])
        /\ last.op = "validate" /\ last.result.valid /\ last.key = entered[1]

\* The command listed the networks after a newly entered key was accepted.
C22_WitnessValidKey ==
    /\ pc = "loop"
    /\ setResult[1].valid
    /\ setResult[1].org_id # None
    /\ nets = NetworkIds

(***************************************************************************)
(* Termination of get_org_id.  Prompt.ask blocks until the user answers,   *)
(* and the while True loop of select_organization has no other exit than   *)
(* its two return statements (and an exception of int()).  The user is     *)
(* assumed to keep answering, and to answer "1" again and again for as     *)
(* long as the prompt keeps coming back.                                   *)
(***************************************************************************)
\* Prompt.ask returns sel and the loop body runs once; the count of prompts
\* stops growing at MaxPrompts, the loop does not.
AskSelection(sel) ==
    /\ selPc = "prompt"
    /\ LET o == SelectionOutcome(selOrgs, sel)
       IN  /\ selPc' = CASE o.kind = "return" -> "returned"
                         [] o.kind = "raise" -> "raised"
                         [] OTHER -> "prompt"
           /\ selResult' = o.value
    /\ selInput' = Some(sel)
    /\ prompts' = IF prompts < MaxPrompts THEN prompts + 1 ELSE prompts
    /\ UNCHANGED <<selOrgs, regVars, valVars, cmdVars, thrVars, stoVars>>

AskAny == \E sel \in Selections : AskSelection(sel)

AskFirst == AskSelection(Sel("1", TRUE, Some(1)))

SelLiveNext ==
    \/ GetOrgIdStart
    \/ AskAny

InitSelectLive ==
    /\ RegInit /\ ValIdle /\ CmdIdle /\ ThrIdle /\ StoIdle
    /\ selOrgs \in OrgLists
    /\ selPc = "start"
    /\ selInput = None
    /\ selResult = None
    /\ prompts = 0

SpecSelectLive ==
    /\ InitSelectLive
    /\ [][SelLiveNext]_vars
    /\ WF_vars(GetOrgIdStart)
    /\ WF_vars(AskAny)
    /\ SF_vars(AskFirst)

\* get_org_id has returned or has been left by an exception.
Resolved == selPc \in {"returned", "raised"}

\* C23: organization resolution terminates for every list, in particular for
\* the empty one: get_org_id eventually returns or exits instead of
\* re-prompting forever.
C23_ResolutionTerminates == <>Resolved

\* C23 for the lists that hold an organization: with a user who keeps
\* answering, and who answers "1" time and again, get_org_id returns.
C23_NonEmptyListTerminates == (selOrgs # <<>>) => <>Resolved

\* get_org_id returned after an answer that was refused and prompted again.
C23_WitnessReprompted ==
    /\ selOrgs # <<>>
    /\ selPc = "returned"
    /\ prompts >= 2

====
